---- MODULE Spec2Model ----
(***************************************************************************)
(* A model of the document synthesis and index compilation core of         *)
(* eccedict.py: generate_html (the entry renderer), the loop of            *)
(* convert_stardictdb_to_txt (reverse-entry extraction and the buffered    *)
(* corpus writer) and generate_mdx (the key compiler).                     *)
(*                                                                         *)
(* A Python str is a sequence of characters, each character a one-element  *)
(* TLA+ string.  A character outside ASCII is written by its code point,   *)
(* "U+7F51".  In the markup the serializer produces, a whole tag          *)
(* ("<title>", "</html>", "<div class=\"git\">") is a single token.  The   *)
(* serializer escapes "<", ">" and "&" of every text, so a tag never       *)
(* arises from the characters of a field.                                  *)
(***************************************************************************)
EXTENDS Integers, Sequences, FiniteSets, TLC

(***************************************************************************)
(* Bounds of the model.                                                    *)
(***************************************************************************)
MaxRows == 2
MaxBufferSize == 2
MaxText == 2
MaxLines == 2
MaxSegments == 2
MaxStars == 2
MaxFragments == 3
MaxTags == 2
MaxTagRows == 2

(***************************************************************************)
(* Python str operations on sequences of characters.                       *)
(***************************************************************************)
Min(S) == CHOOSE x \in S : \A y \in S : x <= y
Max(S) == CHOOSE x \in S : \A y \in S : x >= y

RECURSIVE Concat(_)
Concat(ss) == IF ss = <<>> THEN <<>> ELSE Head(ss) \o Concat(Tail(ss))

\* str.join
RECURSIVE join(_, _)
join(sep, ss) ==
    IF ss = <<>> THEN <<>>
    ELSE IF Len(ss) = 1 THEN ss[1]
    ELSE ss[1] \o sep \o join(sep, Tail(ss))

\* str.startswith
startswith(s, prefix) ==
    Len(prefix) <= Len(s) /\ SubSeq(s, 1, Len(prefix)) = prefix

\* str.find: the 0-based index of the first occurrence, or -1
find(s, sub) ==
    LET hits == {k \in 0..(Len(s) - Len(sub)) : SubSeq(s, k + 1, k + Len(sub)) = sub}
    IN  IF hits = {} THEN -1 ELSE Min(hits)

\* sub in s
contains(s, sub) == find(s, sub) # -1

\* s[start:end] with the Python treatment of negative and oversized indexes
slice(s, start, end) ==
    LET n  == Len(s)
        lo == IF start < 0 THEN Max({n + start, 0}) ELSE Min({start, n})
        hi == IF end < 0 THEN Max({n + end, 0}) ELSE Min({end, n})
    IN  IF lo >= hi THEN <<>> ELSE SubSeq(s, lo + 1, hi)

\* str.split(sep): always at least one part
RECURSIVE split(_, _)
split(s, sep) ==
    LET k == find(s, sep)
    IN  IF k = -1 THEN <<s>>
        ELSE <<SubSeq(s, 1, k)>> \o split(SubSeq(s, k + Len(sep) + 1, Len(s)), sep)

\* A split that always gives two parts, as str.partition does: the whole
\* string and "" when the separator is missing.
split_once_partition(s, sep) ==
    IF find(s, sep) = -1 THEN <<s, <<>>>>
    ELSE <<slice(s, 0, find(s, sep)), slice(s, find(s, sep) + Len(sep), Len(s))>>

\* str.split(sep, 1): one part when sep is absent, else two
split_once(s, sep) ==
    LET k == find(s, sep)
    IN  IF k = -1 THEN <<s>>
        ELSE <<SubSeq(s, 1, k), SubSeq(s, k + Len(sep) + 1, Len(s))>>

\* str.lstrip(chars) and str.rstrip(chars): chars is a SET of characters
RECURSIVE lstrip(_, _)
lstrip(s, chars) ==
    IF s # <<>> /\ Head(s) \in chars THEN lstrip(Tail(s), chars) ELSE s

RECURSIVE rstrip(_, _)
rstrip(s, chars) ==
    IF s # <<>> /\ s[Len(s)] \in chars THEN rstrip(SubSeq(s, 1, Len(s) - 1), chars) ELSE s

\* the characters str.strip() and the regex class \s remove
WHITESPACE == {" ", "\t", "\n", "\r", "\f"}

\* str.strip()
strip(s) == rstrip(lstrip(s, WHITESPACE), WHITESPACE)

\* c * n
repeat(c, n) == [k \in 1..n |-> c]

\* the code point of a character; every character not named is ASCII
ord(c) ==
    CASE c = "U+3400" -> 13312
      [] c = "U+4DFF" -> 19967
      [] c = "U+4E00" -> 19968
      [] c = "U+732B" -> 29483
      [] c = "U+7EDC" -> 32476
      [] c = "U+7F51" -> 32593
      [] c = "U+9FFF" -> 40959
      [] c = "U+A000" -> 40960
      [] c = "U+FF0C" -> 65292
      [] OTHER -> 127

\* str(n) for an int n >= 0
RECURSIVE digits(_)
digits(n) ==
    LET d == <<"0", "1", "2", "3", "4", "5", "6", "7", "8", "9">>
    IN  IF n < 10 THEN <<d[n + 1]>> ELSE digits(n \div 10) \o <<d[(n % 10) + 1]>>

(***************************************************************************)
(* The values of the numeric columns collins, oxford, bnc, frq: an int of  *)
(* the row store, None for NULL, or the "" that the reverse call passes.   *)
(***************************************************************************)
PyInt(n) == [type |-> "int", int |-> n]
PyNone == [type |-> "none", int |-> 0]
PyEmptyStr == [type |-> "str", int |-> 0]

\* the truth value `if v:` tests
truthy(v) == v.type = "int" /\ v.int # 0

\* int(v), called on truthy values only
int(v) == v.int

\* f"{v}"
format(v) ==
    CASE v.type = "int" -> digits(v.int)
      [] v.type = "none" -> <<"N", "o", "n", "e">>
      [] OTHER -> <<>>

(***************************************************************************)
(* The patterns.                                                           *)
(***************************************************************************)
\* the alternatives of POS_PATTERN, in the order of the pattern
POS_CODES ==
    << <<"a">>, <<"n", "a">>, <<"n">>, <<"u", "n">>, <<"v">>, <<"v", "t">>,
       <<"v", "i">>, <<"a", "d", "j">>, <<"a", "d", "v">>, <<"p", "r", "o", "n">>,
       <<"p", "r", "e", "p">>, <<"c", "o", "n", "j">>, <<"i", "n", "t", "e", "r", "j">>,
       <<"a", "r", "t">>, <<"n", "u", "m">>, <<"a", "u", "x">>, <<"p", "l">>,
       <<"s", "i", "n", "g">>, <<"p", "a", "s", "t">>, <<"p", "p">>,
       <<"p", "r", "e", "s">>, <<"g", "e", "r">>, <<"d", "e", "t">>,
       <<"m", "o", "d", "a", "l">>, <<"p", "a", "r", "t">>, <<"s", "u", "f">>,
       <<"p", "r", "e", "f">>, <<"a", "b", "b", "r">>, <<"c", "o", "l", "l">>,
       <<"p", "h", "r">> >>

\* A matcher that commits to the first alternative that is a prefix of the
\* line and does not try the later ones when "\." then fails.
POS_PATTERN_match_committed(trans) ==
    LET pre  == {k \in 1..Len(POS_CODES) : startswith(trans, POS_CODES[k])}
        k    == Min(pre)
        rest == SubSeq(trans, Len(POS_CODES[k]) + 2, Len(trans))
        body == lstrip(rest, WHITESPACE)
        nl   == find(body, <<"\n">>)
    IN  IF pre = {} \/ ~startswith(trans, POS_CODES[Min(pre)] \o <<".">>)
        THEN [matched |-> FALSE, group1 |-> <<>>, group2 |-> <<>>]
        ELSE [matched |-> TRUE, group1 |-> POS_CODES[k],
              group2 |-> IF nl = -1 THEN body ELSE SubSeq(body, 1, nl)]

\* POS_PATTERN.match(trans): "^(a|na|...)\.\s*(.*)".  The regex engine tries
\* the alternatives in order and backtracks when "\." fails, so the match
\* is the first code c with c + "." a prefix of the line; \s* then takes
\* every leading whitespace character, and (.*) stops at a line feed.
POS_PATTERN_match(trans) ==
    LET hits == {k \in 1..Len(POS_CODES) : startswith(trans, POS_CODES[k] \o <<".">>)}
        k    == Min(hits)
        rest == SubSeq(trans, Len(POS_CODES[k]) + 2, Len(trans))
        body == lstrip(rest, WHITESPACE)
        nl   == find(body, <<"\n">>)
    IN  IF hits = {}
        THEN [matched |-> FALSE, group1 |-> <<>>, group2 |-> <<>>]
        ELSE [matched |-> TRUE, group1 |-> POS_CODES[k],
              group2 |-> IF nl = -1 THEN body ELSE SubSeq(body, 1, nl)]

\* A search that takes U+9FFF for the first character after the range.
CHINESE_PATTERN_search_short(s) ==
    \E k \in 1..Len(s) : ord(s[k]) >= 19968 /\ ord(s[k]) < 40959

\* CHINESE_PATTERN.search(s): some character in [U+4E00, U+9FFF]
CHINESE_PATTERN_search(s) ==
    \E k \in 1..Len(s) : ord(s[k]) >= 19968 /\ ord(s[k]) <= 40959

(***************************************************************************)
(* The BeautifulSoup tree.  A node is a tag (name, attrs, contents) or a   *)
(* text node (name "#text", string).  attrs is a sequence of <<key,        *)
(* value>> in the order the keywords were given.                           *)
(***************************************************************************)
\* soup.new_tag(name, **attrs)
new_tag(name, attrs) ==
    [name |-> name, attrs |-> attrs, string |-> <<>>, contents |-> <<>>]

NavigableString(s) ==
    [name |-> "#text", attrs |-> <<>>, string |-> s, contents |-> <<>>]

\* tag.string = s replaces the contents of the tag by one text node
set_string(tag, s) == [tag EXCEPT !.contents = <<NavigableString(s)>>]

\* tag.append(child) for each child of a sequence, in order
extend(tag, children) == [tag EXCEPT !.contents = @ \o children]

\* the tags the html.parser builder serializes as <name .../>
VOID_TAGS == {"link", "hr", "br"}

\* the minimal formatter of str(soup)
escape(s) ==
    Concat([k \in 1..Len(s) |->
        CASE s[k] = "&" -> <<"&amp;">>
          [] s[k] = "<" -> <<"&lt;">>
          [] s[k] = ">" -> <<"&gt;">>
          [] OTHER -> <<s[k]>>])

\* the characters of a sequence as one token
RECURSIVE token(_)
token(s) == IF s = <<>> THEN "" ELSE Head(s) \o token(Tail(s))

decode_attrs(attrs) ==
    token([k \in 1..Len(attrs) |->
        " " \o attrs[k][1] \o "=\"" \o token(escape(attrs[k][2])) \o "\""])

\* str(soup): the markup of a node and of everything below it
RECURSIVE decode(_)
decode(node) ==
    LET inner == Concat([k \in 1..Len(node.contents) |-> decode(node.contents[k])])
    IN  IF node.name = "#text" THEN escape(node.string)
        ELSE IF node.name = "[document]" THEN inner
        ELSE IF node.name \in VOID_TAGS /\ node.contents = <<>>
        THEN <<"<" \o node.name \o decode_attrs(node.attrs) \o "/>">>
        ELSE <<"<" \o node.name \o decode_attrs(node.attrs) \o ">">>
             \o inner \o <<"</" \o node.name \o ">">>

\* the text of a tag that holds one text node (tag.string)
string_of(tag) == tag.contents[1].string

class_of(tag) ==
    IF tag.attrs # <<>> /\ tag.attrs[1][1] = "class" THEN tag.attrs[1][2] ELSE <<>>

\* the children of a tag that carry the class cls, in order
children_of_class(tag, cls) ==
    SelectSeq(tag.contents, LAMBDA c : class_of(c) = <<cls>>)

(***************************************************************************)
(* generate_html: the blocks of the content region, each the sequence of   *)
(* nodes (none or one) it appends to div_ctn.                              *)
(***************************************************************************)
\* "[" "wang" "luo" "]": the marker of a web-sourced gloss
WEB_MARKER == <<"[", "U+7F51", "U+7EDC", "]">>

\* A header block that is gated on the phonetic alone.
git_block_phonetic_only(phonetic, collins, oxford) ==
    IF phonetic = <<>> THEN <<>>
    ELSE << extend(new_tag("div", << <<"class", <<"git">>>> >>),
              << set_string(new_tag("span", << <<"class", <<"ipa">>>> >>),
                            <<"[">> \o phonetic \o <<"]">>) >>) >>

\* git(ipa hnt oxf col)
git_block(phonetic, collins, oxford) ==
    LET span_ipa == set_string(new_tag("span", << <<"class", <<"ipa">>>> >>),
                               <<"[">> \o phonetic \o <<"]">>)
        span_hnt == set_string(new_tag("span", << <<"class", <<"hnt">>>> >>), <<"-">>)
        span_oxf == set_string(
                        new_tag("span", << <<"class", <<"oxf">>>>,
                                           <<"title", <<"Oxford 3000 Keywords">>>> >>),
                        repeat("U+203B", int(oxford)))
        span_col == set_string(
                        new_tag("span", << <<"class", <<"col">>>>,
                                           <<"title", <<"Collins Stars">>>> >>),
                        repeat("U+2605", int(collins)))
    IN  IF phonetic # <<>> \/ truthy(collins) \/ truthy(oxford)
        THEN << extend(new_tag("div", << <<"class", <<"git">>>> >>),
                  (IF phonetic # <<>> THEN <<span_ipa>> ELSE <<>>)
                  \o (IF truthy(collins) \/ truthy(oxford)
                      THEN <<span_hnt>>
                           \o (IF truthy(oxford) THEN <<span_oxf>> ELSE <<>>)
                           \o (IF truthy(collins) THEN <<span_col>> ELSE <<>>)
                      ELSE <<>>)) >>
        ELSE <<>>

br_tag == new_tag("br", <<>>)

\* A web-sourced sub-entry whose text loses the marker as a prefix, once.
dcb_translation_removeprefix(trans) ==
    LET m          == POS_PATTERN_match(trans)
        pos_part   == IF m.matched THEN m.group1 \o <<".">> ELSE <<>>
        trans_part == IF m.matched THEN m.group2 ELSE trans
        div_dcb    == new_tag("span", << <<"class", <<"dcb">>>> >>)
    IN  IF startswith(trans_part, WEB_MARKER)
        THEN extend(div_dcb,
               << set_string(new_tag("span", << <<"class", <<"dnt">>>> >>), WEB_MARKER),
                  set_string(new_tag("span", << <<"class", <<"dne">>>> >>),
                             SubSeq(trans_part, Len(WEB_MARKER) + 1, Len(trans_part))) >>)
        ELSE extend(div_dcb,
               (IF pos_part # <<>>
                THEN <<set_string(new_tag("span", << <<"class", <<"pos">>>> >>), pos_part)>>
                ELSE <<>>)
               \o <<set_string(new_tag("span", << <<"class", <<"dcn">>>> >>), trans_part)>>)

\* dcb(pos dcn) / dcb(dnt dne): the sub-entry of one translation line
dcb_translation(trans) ==
    LET m          == POS_PATTERN_match(trans)
        pos_part   == IF m.matched THEN m.group1 \o <<".">> ELSE <<>>
        trans_part == IF m.matched THEN m.group2 ELSE trans
        div_dcb    == new_tag("span", << <<"class", <<"dcb">>>> >>)
    IN  IF startswith(trans_part, WEB_MARKER)
        THEN extend(div_dcb,
               << set_string(new_tag("span", << <<"class", <<"dnt">>>> >>), WEB_MARKER),
                  set_string(new_tag("span", << <<"class", <<"dne">>>> >>),
                             lstrip(trans_part, {"[", "U+7F51", "U+7EDC", "]"})) >>)
        ELSE extend(div_dcb,
               (IF pos_part # <<>>
                THEN <<set_string(new_tag("span", << <<"class", <<"pos">>>> >>), pos_part)>>
                ELSE <<>>)
               \o <<set_string(new_tag("span", << <<"class", <<"dcn">>>> >>), trans_part)>>)

\* dcb(dcn) / dcb(deq): the sub-entry of one definition line
dcb_definition(defi) ==
    extend(new_tag("span", << <<"class", <<"dcb">>>> >>),
        << set_string(new_tag("span", << <<"class",
                          IF startswith(defi, <<">">>) THEN <<"deq">> ELSE <<"dcn">> >> >>),
                      defi) >>)

\* the separator of the lines of translation and definition: a backslash
\* followed by the letter n
LINE_SEP == <<"\\", "n">>

\* A gloss block that renders the definition lines after the translation
\* lines when both fields are set.
gdc_block_both(translation, definition) ==
    LET translations == split(translation, LINE_SEP)
        definitions  == split(definition, LINE_SEP)
        div_gdc      == new_tag("div", << <<"class", <<"gdc">>>> >>)
        of_trans     == IF translation = <<>> THEN <<>>
                        ELSE Concat([k \in 1..Len(translations) |->
                                 <<dcb_translation(translations[k]), br_tag>>])
        of_defi      == IF definition = <<>> THEN <<>>
                        ELSE Concat([k \in 1..Len(definitions) |->
                                 <<dcb_definition(definitions[k]), br_tag>>])
    IN  IF translation = <<>> /\ definition = <<>> THEN <<>>
        ELSE <<extend(div_gdc, of_trans \o of_defi)>>

\* gdc(dcb dcb ...): translation, else definition
gdc_block(translation, definition) ==
    LET translations == split(translation, LINE_SEP)
        definitions  == split(definition, LINE_SEP)
        div_gdc      == new_tag("div", << <<"class", <<"gdc">>>> >>)
    IN  IF translation # <<>>
        THEN <<extend(div_gdc, Concat([k \in 1..Len(translations) |->
                                   <<dcb_translation(translations[k]), br_tag>>]))>>
        ELSE IF definition # <<>>
        THEN <<extend(div_gdc, Concat([k \in 1..Len(definitions) |->
                                   <<dcb_definition(definitions[k]), br_tag>>]))>>
        ELSE <<>>

\* exchange_dict is a dict of lists; it keeps the order in which its keys
\* were inserted: a sequence of [key, value]
dict_has(d, key) == \E k \in 1..Len(d) : d[k].key = key

\* d.get(key, [])
dict_get(d, key) ==
    IF dict_has(d, key)
    THEN d[CHOOSE k \in 1..Len(d) : d[k].key = key].value
    ELSE <<>>

\* if key not in d: d[key] = []; d[key].append(item)
dict_append(d, key, item) ==
    IF dict_has(d, key)
    THEN [k \in 1..Len(d) |->
             IF d[k].key = key THEN [d[k] EXCEPT !.value = Append(@, item)] ELSE d[k]]
    ELSE Append(d, [key |-> key, value |-> <<item>>])

\* type_part, word_part = exch.split(":", 1) raises ValueError for a
\* segment without ":"
exchange_raises(exchange) ==
    /\ exchange # <<>>
    /\ \E k \in 1..Len(split(exchange, <<"/">>)) :
           Len(split_once(split(exchange, <<"/">>)[k], <<":">>)) = 1

\* the loop that fills exchange_dict
RECURSIVE parse_exchanges(_, _)
parse_exchanges(exchanges, exchange_dict) ==
    IF exchanges = <<>> THEN exchange_dict
    ELSE LET parts == split_once(Head(exchanges), <<":">>)
         IN  parse_exchanges(Tail(exchanges), dict_append(exchange_dict, parts[1], parts[2]))

\* the label of one character of the value of code "1"; none for a
\* character the match statement has no case for
what_of(char) ==
    CASE char = "p" -> << <<"U+8FC7", "U+53BB", "U+5F0F">> >>
      [] char = "d" -> << <<"U+8FC7", "U+53BB", "U+5206", "U+8BCD">> >>
      [] char = "i" -> << <<"U+73B0", "U+5728", "U+5206", "U+8BCD">> >>
      [] char = "3" -> << <<"U+7B2C", "U+4E09", "U+4EBA", "U+79F0", "U+5355", "U+6570">> >>
      [] char = "r" -> << <<"U+6BD4", "U+8F83", "U+7EA7">> >>
      [] char = "t" -> << <<"U+6700", "U+9AD8", "U+7EA7">> >>
      [] char = "s" -> << <<"U+590D", "U+6570", "U+5F62", "U+5F0F">> >>
      [] OTHER -> <<>>

\* A tense line that lists the values in the order of the segments of the
\* exchange string.
fmb_block_segment_order(exchange_dict) ==
    LET tense == SelectSeq(exchange_dict, LAMBDA e : e.key \in {<<"p">>, <<"d">>, <<"i">>, <<"3">>})
    IN  IF tense = <<>> THEN <<>>
        ELSE << extend(new_tag("div", << <<"class", <<"fmb">>>> >>),
                  << set_string(new_tag("span", << <<"class", <<"fnm">>>> >>),
                                <<"U+65F6", "U+6001", ":">>),
                     set_string(new_tag("span", << <<"class", <<"frm">>>> >>),
                                join(<<",", " ">>,
                                     Concat([k \in 1..Len(tense) |-> tense[k].value]))) >>) >>

\* fmb(fnm frm): the tense forms
fmb_block(exchange_dict) ==
    IF \/ dict_has(exchange_dict, <<"p">>)
       \/ dict_has(exchange_dict, <<"d">>)
       \/ dict_has(exchange_dict, <<"i">>)
       \/ dict_has(exchange_dict, <<"3">>)
    THEN << extend(new_tag("div", << <<"class", <<"fmb">>>> >>),
              << set_string(new_tag("span", << <<"class", <<"fnm">>>> >>),
                            <<"U+65F6", "U+6001", ":">>),
                 set_string(new_tag("span", << <<"class", <<"frm">>>> >>),
                            join(<<",", " ">>,
                                 dict_get(exchange_dict, <<"p">>)
                                 \o dict_get(exchange_dict, <<"d">>)
                                 \o dict_get(exchange_dict, <<"i">>)
                                 \o dict_get(exchange_dict, <<"3">>))) >>) >>
    ELSE <<>>

\* qmb(qnm qrm): the degree forms
qmb_block(exchange_dict) ==
    IF dict_has(exchange_dict, <<"r">>) \/ dict_has(exchange_dict, <<"t">>)
    THEN << extend(new_tag("div", << <<"class", <<"qmb">>>> >>),
              << set_string(new_tag("span", << <<"class", <<"qnm">>>> >>),
                            <<"U+7EA7", "U+522B", ":">>),
                 set_string(new_tag("span", << <<"class", <<"qrm">>>> >>),
                            join(<<",", " ">>,
                                 dict_get(exchange_dict, <<"r">>)
                                 \o dict_get(exchange_dict, <<"t">>))) >>) >>
    ELSE <<>>

\* A base-form line that decodes the first value of code "1" only.
orb_block_first_value(word, exchange_dict) ==
    LET keys      == dict_get(exchange_dict, <<"1">>)
        what_list == Concat([c \in 1..Len(keys[1]) |-> what_of(keys[1][c])])
        what_str  == join(<<"U+548C">>, what_list)
        base      == dict_get(exchange_dict, <<"0">>)[1]
    IN  IF dict_has(exchange_dict, <<"0">>) /\ dict_has(exchange_dict, <<"1">>)
        THEN << extend(new_tag("div", << <<"class", <<"orb">>>> >>),
                  << set_string(new_tag("span", << <<"class", <<"onm">>>> >>),
                                <<"U+539F", "U+578B", ":">>),
                     set_string(new_tag("span", << <<"class", <<"orm">>>> >>),
                                IF what_str # <<>>
                                THEN word \o <<" ", "U+662F", " ">> \o base
                                          \o <<" ", "U+7684">> \o what_str
                                ELSE word \o <<" ", "U+7684", "U+539F", "U+578B", "U+662F", " ">>
                                          \o base) >>) >>
        ELSE <<>>

\* orb(onm orm): the base form
orb_block(word, exchange_dict) ==
    LET keys      == dict_get(exchange_dict, <<"1">>)
        what_list == Concat([k \in 1..Len(keys) |->
                         Concat([c \in 1..Len(keys[k]) |-> what_of(keys[k][c])])])
        what_str  == join(<<"U+548C">>, what_list)
        base      == dict_get(exchange_dict, <<"0">>)[1]
    IN  IF dict_has(exchange_dict, <<"0">>) /\ dict_has(exchange_dict, <<"1">>)
        THEN << extend(new_tag("div", << <<"class", <<"orb">>>> >>),
                  << set_string(new_tag("span", << <<"class", <<"onm">>>> >>),
                                <<"U+539F", "U+578B", ":">>),
                     set_string(new_tag("span", << <<"class", <<"orm">>>> >>),
                                IF what_str # <<>>
                                THEN word \o <<" ", "U+662F", " ">> \o base
                                          \o <<" ", "U+7684">> \o what_str
                                ELSE word \o <<" ", "U+7684", "U+539F", "U+578B", "U+662F", " ">>
                                          \o base) >>) >>
        ELSE <<>>

\* gfm(fmb qmb orb): exchange; for an exchange that does not raise
gfm_block(word, exchange) ==
    LET exchange_dict == parse_exchanges(split(exchange, <<"/">>), <<>>)
    IN  IF exchange # <<>>
        THEN << extend(new_tag("div", << <<"class", <<"gfm">>>> >>),
                       fmb_block(exchange_dict) \o qmb_block(exchange_dict)
                       \o orb_block(word, exchange_dict)) >>
        ELSE <<>>

\* A frequency block whose labels follow the order of the codes in tag.
frq_block_tag_order(tag, bnc, frq) ==
    LET tag_list == split(tag, <<" ">>)
        label(t) == CASE t = <<"z", "k">> -> <<"U+4E2D">>
                      [] t = <<"g", "k">> -> <<"U+9AD8">>
                      [] t = <<"k", "y">> -> <<"U+7814">>
                      [] t = <<"c", "e", "t", "4">> -> <<"U+56DB">>
                      [] t = <<"c", "e", "t", "6">> -> <<"U+516D">>
                      [] t = <<"t", "o", "e", "f", "l">> -> <<"U+6258">>
                      [] t = <<"i", "e", "l", "t", "s">> -> <<"U+96C5">>
                      [] t = <<"g", "r", "e">> -> <<"U+5B9D">>
                      [] OTHER -> <<>>
        tag_part == Concat([k \in 1..Len(tag_list) |-> label(tag_list[k])])
    IN  IF tag # <<>> \/ truthy(frq) \/ truthy(bnc)
        THEN << set_string(
                  new_tag("div", << <<"class", <<"frq">>>>,
                                    <<"title", <<"COCA: ">> \o format(frq)
                                               \o <<", BNC: ">> \o format(bnc)>> >>),
                  IF truthy(frq) \/ truthy(bnc)
                  THEN tag_part \o <<" ">> \o format(frq) \o <<"/">> \o format(bnc)
                  ELSE tag_part) >>
        ELSE <<>>

\* frq (tag frq/bnc)
frq_block(tag, bnc, frq) ==
    LET tag_list == split(tag, <<" ">>)
        has(t)   == \E k \in 1..Len(tag_list) : tag_list[k] = t
        tag_part == (IF has(<<"z", "k">>) THEN <<"U+4E2D">> ELSE <<>>)
                    \o (IF has(<<"g", "k">>) THEN <<"U+9AD8">> ELSE <<>>)
                    \o (IF has(<<"k", "y">>) THEN <<"U+7814">> ELSE <<>>)
                    \o (IF has(<<"c", "e", "t", "4">>) THEN <<"U+56DB">> ELSE <<>>)
                    \o (IF has(<<"c", "e", "t", "6">>) THEN <<"U+516D">> ELSE <<>>)
                    \o (IF has(<<"t", "o", "e", "f", "l">>) THEN <<"U+6258">> ELSE <<>>)
                    \o (IF has(<<"i", "e", "l", "t", "s">>) THEN <<"U+96C5">> ELSE <<>>)
                    \o (IF has(<<"g", "r", "e">>) THEN <<"U+5B9D">> ELSE <<>>)
    IN  IF tag # <<>> \/ truthy(frq) \/ truthy(bnc)
        THEN << set_string(
                  new_tag("div", << <<"class", <<"frq">>>>,
                                    <<"title", <<"COCA: ">> \o format(frq)
                                               \o <<", BNC: ">> \o format(bnc)>> >>),
                  IF truthy(frq) \/ truthy(bnc)
                  THEN tag_part \o <<" ">> \o format(frq) \o <<"/">> \o format(bnc)
                  ELSE tag_part) >>
        ELSE <<>>

\* generate_html raises (and returns nothing) exactly when the exchange
\* loop raises
generate_html_raises(word, phonetic, definition, translation, collins, oxford, tag, bnc, frq, exchange) ==
    exchange_raises(exchange)

\* generate_html: the soup it returns
generate_html(word, phonetic, definition, translation, collins, oxford, tag, bnc, frq, exchange) ==
    LET title_tag == set_string(new_tag("title", <<>>), word)
        link_tag  == new_tag("link", << <<"href", <<"concise-enhanced.css">>>>,
                                        <<"rel", <<"stylesheet">>>>,
                                        <<"type", <<"text/css">>>> >>)
        head_tag  == extend(new_tag("head", <<>>), <<title_tag, link_tag>>)
        div_hwd   == set_string(new_tag("div", << <<"class", <<"hwd">>>> >>), word)
        hr_hrz    == new_tag("hr", << <<"class", <<"hrz">>>> >>)
        hr_hr2    == new_tag("hr", << <<"class", <<"hr2">>>> >>)
        div_ctn   == extend(new_tag("div", << <<"class", <<"ctn">>>>, <<"id", <<"content">>>> >>),
                            <<div_hwd, hr_hrz>>
                            \o git_block(phonetic, collins, oxford)
                            \o gdc_block(translation, definition)
                            \o gfm_block(word, exchange)
                            \o frq_block(tag, bnc, frq)
                            \o <<hr_hr2>>)
        div_bdy   == extend(new_tag("div", << <<"class", <<"bdy">>>>, <<"id", <<"ecdict">>>> >>),
                            <<div_ctn>>)
        body_tag  == extend(new_tag("body", <<>>), <<div_bdy>>)
        html_tag  == extend(new_tag("html", <<>>), <<head_tag, body_tag>>)
    IN  extend(new_tag("[document]", <<>>), <<html_tag>>)

\* the accessors of a rendered soup
title_of(soup) == string_of(soup.contents[1].contents[1].contents[1])
ctn_of(soup) == soup.contents[1].contents[2].contents[1].contents[1]

(***************************************************************************)
(* convert_stardictdb_to_txt: the reverse entry of a translation line and  *)
(* the buffer.                                                             *)
(***************************************************************************)
\* the translation line, as gloss text, with its part of speech left on it
reverse_args_keep_pos(word, definition, trans) ==
    [word |-> trans, phonetic |-> <<>>, definition |-> definition,
     translation |-> word, collins |-> PyEmptyStr, oxford |-> PyEmptyStr,
     tag |-> <<>>, bnc |-> PyEmptyStr, frq |-> PyEmptyStr, exchange |-> <<>>]

\* the arguments of the call that renders the reverse entry of the line
\* trans of a row: generate_html(trans_part, "", definition, word, "", ...)
reverse_args(word, definition, trans) ==
    LET match      == POS_PATTERN_match(trans)
        trans_part == IF match.matched THEN match.group2 ELSE trans
    IN  [word |-> trans_part, phonetic |-> <<>>, definition |-> definition,
         translation |-> word, collins |-> PyEmptyStr, oxford |-> PyEmptyStr,
         tag |-> <<>>, bnc |-> PyEmptyStr, frq |-> PyEmptyStr, exchange |-> <<>>]

\* A flush test that lets the buffer reach buffer_size and flushes above it.
buffer_full_above(buf, size) == Len(buf) > size

\* len(buffer) >= buffer_size
buffer_full(buf, size) == Len(buf) >= size

\* A write that replaces what the file holds, as a file opened anew for
\* each batch would.
write_truncating(file, buf) == Concat(buf)

\* A write that joins the buffer from its newest document to its oldest.
write_newest_first(file, buf) ==
    file \o Concat([k \in 1..Len(buf) |-> buf[Len(buf) + 1 - k]])

\* f.write("".join(buffer))
write(file, buf) == file \o Concat(buf)

(***************************************************************************)
(* generate_mdx: the dictionary and the title of an entry.                 *)
(***************************************************************************)
HTML_CLOSE == <<"</html>">>
TITLE_OPEN == <<"<title>">>
TITLE_CLOSE == <<"</title>">>

\* An assignment that keeps the value a key already has.
dict_set_keep_first(d, key, value) ==
    IF dict_has(d, key) THEN d ELSE Append(d, [key |-> key, value |-> value])

\* dictionary[key] = value
dict_set(d, key, value) ==
    IF dict_has(d, key)
    THEN [k \in 1..Len(d) |-> IF d[k].key = key THEN [d[k] EXCEPT !.value = value] ELSE d[k]]
    ELSE Append(d, [key |-> key, value |-> value])

\* word = entry[start:end].strip() of a stripped entry that holds "<title>"
title_key(entry) ==
    LET start == find(entry, TITLE_OPEN) + Len(TITLE_OPEN)
        end   == find(entry, TITLE_CLOSE)
    IN  strip(slice(entry, start, end))

\* the body of the loop over the entries: the dictionary after one entry
compile_entry(d, raw) ==
    LET entry == strip(raw)
    IN  IF entry = <<>> THEN d
        ELSE IF contains(entry, TITLE_OPEN)
        THEN dict_set(d, title_key(entry), entry \o HTML_CLOSE)
        ELSE d

(***************************************************************************)
(* update_tag_from_tagdb_to_stardictdb: the merge of two tag strings.      *)
(***************************************************************************)
CUSTOM_ORDER ==
    <<<<"z", "k">>, <<"g", "k">>, <<"c", "e", "t", "4">>, <<"c", "e", "t", "6">>,
      <<"k", "y">>, <<"t", "o", "e", "f", "l">>, <<"i", "e", "l", "t", "s">>,
      <<"g", "r", "e">>>>

\* the NULL of a tag column, which is no string
NULL == <<"NULL">>

\* key=lambda x: CUSTOM_ORDER.index(x) if x in CUSTOM_ORDER else len(CUSTOM_ORDER)
sort_key(x) ==
    IF \E k \in 1..Len(CUSTOM_ORDER) : CUSTOM_ORDER[k] = x
    THEN (CHOOSE k \in 1..Len(CUSTOM_ORDER) : CUSTOM_ORDER[k] = x) - 1
    ELSE Len(CUSTOM_ORDER)

\* set(s.split(" "))
tag_set(s) == {split(s, <<" ">>)[k] : k \in 1..Len(split(s, <<" ">>))}

\* sorted(mixed_tag_set, key=...): the sort is stable over the iteration
\* order of the set, which is any order: every arrangement of the set with
\* non-decreasing keys
sorted(mixed_tag_set) ==
    {l \in [1..Cardinality(mixed_tag_set) -> mixed_tag_set] :
        /\ \A i, j \in 1..Cardinality(mixed_tag_set) : i # j => l[i] # l[j]
        /\ \A i, j \in 1..Cardinality(mixed_tag_set) :
               i < j => sort_key(l[i]) <= sort_key(l[j])}

\* the values mixed_tag can take for a row's tag and a new tag
mixed_tags(existing_tag, new) ==
    LET existing == IF existing_tag # NULL THEN existing_tag ELSE <<>>
    IN  {join(<<" ">>, l) : l \in sorted(tag_set(existing) \cup tag_set(new))}

\* UPDATE stardict SET tag = ? WHERE word = ?
update_stardict(table, mixed_tag, word) ==
    [k \in 1..Len(table) |->
        IF table[k].word = word THEN [table[k] EXCEPT !.tag = mixed_tag] ELSE table[k]]

(***************************************************************************)
(* The inputs of the model.                                                *)
(***************************************************************************)
SeqsUpTo(S, n) == UNION {[1..k -> S] : k \in 0..n}

DictionaryRow(word, phonetic, definition, translation, collins, oxford, tag, bnc, frq, exchange) ==
    [word |-> word, phonetic |-> phonetic, definition |-> definition,
     translation |-> translation, collins |-> collins, oxford |-> oxford,
     tag |-> tag, bnc |-> bnc, frq |-> frq, exchange |-> exchange]

\* a row with every optional field absent, and one with every field set
BARE_ROW ==
    DictionaryRow(<<"c", "a", "t">>, <<>>, <<>>, <<>>, PyNone, PyNone, <<>>,
                  PyNone, PyNone, <<>>)
FULL_ROW ==
    DictionaryRow(<<"c", "a", "t">>, <<"k">>, <<"d">>, <<"n", ".", " ", "U+732B">>,
                  PyInt(1), PyInt(1), <<"z", "k">>, PyInt(1), PyInt(2),
                  <<"3", ":", "c", "a", "t", "s">>)

NUMBERS == {PyNone, PyEmptyStr} \cup {PyInt(n) : n \in 0..MaxStars}

HEADER_ROWS ==
    {[r EXCEPT !.phonetic = p, !.collins = c, !.oxford = o] :
        r \in {BARE_ROW, FULL_ROW}, p \in {<<>>, <<"k">>}, c \in NUMBERS, o \in NUMBERS}

\* translation lines: code + ". " + remainder for every code of the
\* catalog, the web marker + remainder, and lines without either
POS_LINES ==
    {POS_CODES[k] \o <<".", " ">> \o r :
        k \in 1..Len(POS_CODES), r \in SeqsUpTo({"x", " ", "\n"}, MaxText)}
WEB_LINES ==
    {WEB_MARKER \o r : r \in SeqsUpTo({"x", " ", "[", "U+7F51"}, MaxText)}
PLAIN_LINES ==
    SeqsUpTo({"x", ".", "v", "U+732B"}, MaxText)
    \cup {<<"v", "t", "x">>, <<"n", ".", "[", "U+7F51", "U+7EDC", "]", "x">>,
          <<"x", "[", "U+7F51", "U+7EDC", "]">>, <<"[", "U+7F51", "x">>}
FEW_LINES ==
    {<<"n", ".", " ", "U+732B">>, <<"[", "U+7F51", "U+7EDC", "]", "x">>, <<"x">>, <<>>}

TRANSLATIONS ==
    POS_LINES \cup WEB_LINES \cup PLAIN_LINES
    \cup {join(LINE_SEP, ls) : ls \in SeqsUpTo(FEW_LINES, MaxLines)}
DEFINITIONS ==
    {join(LINE_SEP, ls) : ls \in SeqsUpTo({<<"d">>, <<">", "e">>}, MaxLines)}

GLOSS_ROWS ==
    {[r EXCEPT !.translation = t] : r \in {BARE_ROW, FULL_ROW}, t \in TRANSLATIONS}
    \cup {[r EXCEPT !.translation = join(LINE_SEP, ls), !.definition = d] :
            r \in {BARE_ROW, FULL_ROW}, ls \in SeqsUpTo(FEW_LINES, MaxLines),
            d \in DEFINITIONS}

\* exchange strings: up to MaxSegments segments, well formed or not
SEGMENTS ==
    {<<"p", ":", "a">>, <<"p", ":", "b">>, <<"d", ":", "c">>, <<"i", ":", "e">>,
     <<"3", ":", "f">>, <<"r", ":", "g">>, <<"t", ":", "h">>, <<"0", ":", "o">>,
     <<"1", ":", "p", "x", "d">>, <<"s", ":", "y">>, <<"p", "d", ":", "z">>,
     <<"q">>, <<>>}
\* exchange strings with a base form: "0:o" and then more values of code
\* "0" and values of code "1" with known and unknown characters
BASE_SEGMENTS ==
    {<<"0", ":", "u">>, <<"1", ":", "p", "x", "d">>, <<"1", ":", "i">>, <<"1", ":", "x">>}
BASE_EXCHANGES ==
    {join(<<"/">>, <<<<"0", ":", "o">>>> \o segs) : segs \in SeqsUpTo(BASE_SEGMENTS, MaxSegments)}
EXCHANGES ==
    {join(<<"/">>, segs) : segs \in SeqsUpTo(SEGMENTS, MaxSegments)} \cup BASE_EXCHANGES

EXCHANGE_ROWS ==
    {[r EXCEPT !.exchange = e] : r \in {BARE_ROW, FULL_ROW}, e \in EXCHANGES}

\* tags: up to MaxTags codes, of the catalog or not, in any order, and the
\* frequency ranks: absent, zero and set
TAG_CODES ==
    {<<"z", "k">>, <<"g", "k">>, <<"k", "y">>, <<"c", "e", "t", "4">>,
     <<"c", "e", "t", "6">>, <<"t", "o", "e", "f", "l">>, <<"i", "e", "l", "t", "s">>,
     <<"g", "r", "e">>, <<"z", "k", "x">>}
TAGS == {join(<<" ">>, ts) : ts \in SeqsUpTo(TAG_CODES, MaxTags)}
RANKS ==
    {<<PyNone, PyNone>>, <<PyEmptyStr, PyEmptyStr>>, <<PyInt(0), PyInt(0)>>,
     <<PyInt(45), PyInt(120)>>, <<PyInt(0), PyInt(1)>>, <<PyInt(2), PyInt(0)>>,
     <<PyInt(3), PyNone>>}
FREQUENCY_ROWS ==
    {[BARE_ROW EXCEPT !.tag = t, !.frq = n[1], !.bnc = n[2]] : t \in TAGS, n \in RANKS}

HTML_ROWS == HEADER_ROWS \cup GLOSS_ROWS \cup EXCHANGE_ROWS \cup FREQUENCY_ROWS

\* the rows of the row store: translation lines with and without a
\* character of [U+4E00, U+9FFF], at both ends of the range
REVERSE_LINES ==
    {<<"U+4DFF", "x", "U+A000">>, <<"n", ".", " ", "U+4E00">>, <<"x", "U+9FFF">>}
RICH_ROWS ==
    {[BARE_ROW EXCEPT !.definition = <<"d">>, !.translation = join(LINE_SEP, ls)] :
        ls \in SeqsUpTo(REVERSE_LINES, MaxLines)}
SAME_GLOSS_ROW ==
    DictionaryRow(<<"b">>, <<>>, <<>>, <<"U+732B">>, PyInt(0), PyInt(0), <<>>,
                  PyInt(0), PyInt(0), <<>>)
BAD_EXCHANGE_ROW ==
    DictionaryRow(<<"e">>, <<>>, <<>>, <<"U+732B">>, PyNone, PyNone, <<>>,
                  PyNone, PyNone, <<"q">>)
\* a headword with a markup-special character and a gloss that ends with
\* a space
MARKUP_ROW ==
    DictionaryRow(<<"R", "&", "D">>, <<>>, <<>>, <<"U+732B", " ">>, PyInt(0), PyInt(0),
                  <<>>, PyInt(0), PyInt(0), <<>>)
\* a word that begins with an abbreviation of the catalog and a full stop
ABBREVIATION_ROW ==
    DictionaryRow(<<"a", ".", "m", ".">>, <<>>, <<"d">>, <<"U+732B">>, PyInt(0), PyInt(0),
                  <<>>, PyInt(0), PyInt(0), <<>>)
SMALL_ROWS == {FULL_ROW, SAME_GLOSS_ROW, BAD_EXCHANGE_ROW}
ROW_SEQS ==
    SeqsUpTo(SMALL_ROWS, MaxRows)
    \cup {<<r>> : r \in RICH_ROWS}
    \cup {<<r, SAME_GLOSS_ROW>> : r \in RICH_ROWS}
    \cup {<<FULL_ROW, r>> : r \in RICH_ROWS}
    \cup {<<MARKUP_ROW>>, <<SAME_GLOSS_ROW, MARKUP_ROW>>, <<ABBREVIATION_ROW>>}

\* corpus texts: up to MaxFragments fragments separated by "</html>", with
\* and without a title, blank, and with the same key more than once
FRAGMENTS ==
    {<<"<html>", "<title>", "a", "</title>", "x">>,
     <<"<html>", "<title>", "a", "</title>", "y">>,
     <<"<html>", "<title>", "b", "</title>", "x">>,
     <<"<html>", "<title>", " ", "a", "</title>", "z">>,
     <<"\n", "<html>", "<title>", "b", "</title>", "y", "\n">>,
     <<"<title>", "a", "x">>, <<"<html>", "x">>, <<"\n">>}
CORPORA == {join(HTML_CLOSE, frs) : frs \in SeqsUpTo(FRAGMENTS, MaxFragments)}

\* table stardict: word "a" with a tag column that is NULL, empty or set,
\* and word "b"; table words of the tag store: up to MaxTagRows rows for
\* "a" and for a word that stardict does not hold
EXISTING_TAGS ==
    {NULL, <<>>, <<"g", "k">>, <<"k", "y", " ", "z", "k">>, <<"x">>}
STARDICT_TABLES ==
    {<<[word |-> <<"a">>, tag |-> t], [word |-> <<"b">>, tag |-> <<"g", "k">>]>> :
        t \in EXISTING_TAGS}
TAG_ROWS ==
    {[word |-> <<"a">>, tag |-> t] :
        t \in {NULL, <<>>, <<"z", "k">>, <<"c", "e", "t", "4", " ", "k", "y">>, <<"w">>}}
    \cup {[word |-> <<"c">>, tag |-> <<"z", "k">>]}
TAG_STORES == SeqsUpTo(TAG_ROWS, MaxTagRows)

(***************************************************************************)
(* The state.                                                              *)
(***************************************************************************)
VARIABLES
    pc,             \* the control point of the function that runs
    row,            \* generate_html: the ten arguments of the call
    soup,           \* generate_html: the soup returned
    rows,           \* convert_stardictdb_to_txt: cursor.fetchall()
    buffer_size,    \* convert_stardictdb_to_txt: its parameter
    row_i,          \* the index in rows of the row of the loop
    trans_i,        \* the index of the line of the inner loop
    buffer,         \* the documents appended and not yet written
    f,              \* the text written to txt_file
    content,        \* generate_mdx: f.read()
    entries,        \* generate_mdx: content.split("</html>")
    entry_i,        \* the index in entries of the entry of the loop
    dictionary,     \* generate_mdx: the dict handed to MDictWriter
    disk,           \* txt_file and mdx_file on disk: "absent", "old" (as it
                    \* was before the call) or "new" (opened for writing)
    stardict,       \* update_tag: the (word, tag) columns of table stardict
    tag_rows,       \* update_tag: tag_cursor.fetchall() of table words
    tag_i,          \* the index in tag_rows of the row of the loop
    snapshots       \* table stardict as it was when each call started

vars == <<pc, row, soup, rows, buffer_size, row_i, trans_i, buffer, f,
          content, entries, entry_i, dictionary, disk,
          stardict, tag_rows, tag_i, snapshots>>

tag_vars == <<stardict, tag_rows, tag_i, snapshots>>

collector_vars == <<rows, buffer_size, row_i, trans_i, buffer, f>>
compiler_vars == <<content, entries, entry_i, dictionary>>

\* soup = BeautifulSoup(features="html.parser")
BeautifulSoup == new_tag("[document]", <<>>)

html_of(r) ==
    generate_html(r.word, r.phonetic, r.definition, r.translation, r.collins,
                  r.oxford, r.tag, r.bnc, r.frq, r.exchange)

html_raises(r) ==
    generate_html_raises(r.word, r.phonetic, r.definition, r.translation, r.collins,
                         r.oxford, r.tag, r.bnc, r.frq, r.exchange)

(***************************************************************************)
(* SpecHtml: one call of generate_html on a row of HTML_ROWS.              *)
(***************************************************************************)
InitHtml ==
    /\ pc = "generate_html"
    /\ row \in HTML_ROWS
    /\ soup = BeautifulSoup
    /\ disk = [txt |-> "absent", mdx |-> "absent"]
    /\ stardict = <<>> /\ tag_rows = <<>> /\ tag_i = 0 /\ snapshots = <<>>
    /\ rows = <<>> /\ buffer_size = 1 /\ row_i = 0 /\ trans_i = 0
    /\ buffer = <<>> /\ f = <<>>
    /\ content = <<>> /\ entries = <<>> /\ entry_i = 0 /\ dictionary = <<>>

HtmlReturn ==
    /\ pc = "generate_html"
    /\ ~html_raises(row)
    /\ soup' = html_of(row)
    /\ pc' = "returned"
    /\ UNCHANGED <<tag_vars, disk, row, collector_vars, compiler_vars>>

HtmlRaise ==
    /\ pc = "generate_html"
    /\ html_raises(row)
    /\ pc' = "raised"
    /\ UNCHANGED <<tag_vars, disk, row, soup, collector_vars, compiler_vars>>

NextHtml == HtmlReturn \/ HtmlRaise

SpecHtml == InitHtml /\ [][NextHtml]_vars

(***************************************************************************)
(* Spec: convert_stardictdb_to_txt over the rows of a scan, and then       *)
(* generate_mdx over the text it wrote.                                    *)
(***************************************************************************)
Init ==
    /\ pc = "convert_stardictdb_to_txt"
    /\ disk \in [txt : {"absent", "old"}, mdx : {"absent", "old"}]
    /\ stardict = <<>> /\ tag_rows = <<>> /\ tag_i = 0 /\ snapshots = <<>>
    /\ rows \in ROW_SEQS
    /\ buffer_size \in 1..MaxBufferSize
    /\ row_i = 0 /\ trans_i = 0
    /\ row = BARE_ROW /\ soup = BeautifulSoup
    /\ buffer = <<>> /\ f = <<>>
    /\ content = <<>> /\ entries = <<>> /\ entry_i = 0 /\ dictionary = <<>>

\* the lines of the translation of the row of the loop
translations == split(row.translation, LINE_SEP)

\* if txt_file.exists(): raise FileExistsError
DestinationExists ==
    /\ pc = "convert_stardictdb_to_txt"
    /\ disk.txt # "absent"
    /\ pc' = "raised"
    /\ UNCHANGED <<tag_vars, disk, row, soup, collector_vars, compiler_vars>>

\* with txt_file.open("w") as f: the file is created, and buffer = []
OpenTxt ==
    /\ pc = "convert_stardictdb_to_txt"
    /\ disk.txt = "absent"
    /\ disk' = [disk EXCEPT !.txt = "new"]
    /\ f' = <<>>
    /\ buffer' = <<>>
    /\ pc' = "for_row"
    /\ UNCHANGED <<tag_vars, row, soup, rows, buffer_size, row_i, trans_i, compiler_vars>>

\* for row in rows: the next row is unpacked
NextRow ==
    /\ pc = "for_row"
    /\ row_i < Len(rows)
    /\ row_i' = row_i + 1
    /\ row' = rows[row_i + 1]
    /\ pc' = "forward"
    /\ UNCHANGED <<tag_vars, disk, soup, rows, buffer_size, trans_i, buffer, f, compiler_vars>>

\* the forward document is rendered and appended
Forward ==
    /\ pc = "forward"
    /\ ~html_raises(row)
    /\ soup' = html_of(row)
    /\ buffer' = Append(buffer, decode(soup') \o <<"\n">>)
    /\ trans_i' = 0
    /\ pc' = IF row.translation # <<>> THEN "for_trans" ELSE "flush"
    /\ UNCHANGED <<tag_vars, disk, row, rows, buffer_size, row_i, f, compiler_vars>>

\* generate_html raises: the with block closes the file and the error
\* leaves the function
ForwardRaise ==
    /\ pc = "forward"
    /\ html_raises(row)
    /\ pc' = "raised"
    /\ UNCHANGED <<tag_vars, disk, row, soup, collector_vars, compiler_vars>>

\* for trans in translations: a line without a Chinese character
SkipLine ==
    /\ pc = "for_trans"
    /\ trans_i < Len(translations)
    /\ ~CHINESE_PATTERN_search(translations[trans_i + 1])
    /\ trans_i' = trans_i + 1
    /\ UNCHANGED <<tag_vars, disk, pc, row, soup, rows, buffer_size, row_i, buffer, f, compiler_vars>>

\* for trans in translations: the reverse document of a line
ReverseEntry ==
    /\ pc = "for_trans"
    /\ trans_i < Len(translations)
    /\ CHINESE_PATTERN_search(translations[trans_i + 1])
    /\ soup' = html_of(reverse_args(row.word, row.definition, translations[trans_i + 1]))
    /\ buffer' = Append(buffer, decode(soup') \o <<"\n">>)
    /\ trans_i' = trans_i + 1
    /\ UNCHANGED <<tag_vars, disk, pc, row, rows, buffer_size, row_i, f, compiler_vars>>

EndTranslations ==
    /\ pc = "for_trans"
    /\ trans_i = Len(translations)
    /\ pc' = "flush"
    /\ UNCHANGED <<tag_vars, disk, row, soup, collector_vars, compiler_vars>>

\* if len(buffer) >= buffer_size: write and clear
Flush ==
    /\ pc = "flush"
    /\ buffer_full(buffer, buffer_size)
    /\ f' = write(f, buffer)
    /\ buffer' = <<>>
    /\ pc' = "for_row"
    /\ UNCHANGED <<tag_vars, disk, row, soup, rows, buffer_size, row_i, trans_i, compiler_vars>>

NoFlush ==
    /\ pc = "flush"
    /\ ~buffer_full(buffer, buffer_size)
    /\ pc' = "for_row"
    /\ UNCHANGED <<tag_vars, disk, row, soup, collector_vars, compiler_vars>>

\* after the loop: if buffer: write it (the list is not cleared); the file
\* is closed and the function returns
WriteRest ==
    /\ pc = "for_row"
    /\ row_i = Len(rows)
    /\ f' = IF buffer # <<>> THEN write(f, buffer) ELSE f
    /\ pc' = "generate_mdx"
    /\ UNCHANGED <<tag_vars, disk, row, soup, rows, buffer_size, row_i, trans_i, buffer, compiler_vars>>

\* generate_mdx: content = f.read(); entries = content.split("</html>")
ReadCorpus ==
    /\ pc = "generate_mdx"
    /\ content' = f
    /\ entries' = split(f, HTML_CLOSE)
    /\ entry_i' = 0
    /\ dictionary' = <<>>
    /\ pc' = "for_entry"
    /\ UNCHANGED <<tag_vars, disk, row, soup, collector_vars>>

\* for entry in entries: a blank entry and an entry without "<title>" are
\* passed over, any other is stored under its title
CompileEntry ==
    /\ pc = "for_entry"
    /\ entry_i < Len(entries)
    /\ entry_i' = entry_i + 1
    /\ dictionary' = compile_entry(dictionary, entries[entry_i + 1])
    /\ UNCHANGED <<tag_vars, disk, pc, row, soup, collector_vars, content, entries>>

\* the dictionary is handed to MDictWriter and written to mdx_file
WriteMdx ==
    /\ pc = "for_entry"
    /\ entry_i = Len(entries)
    /\ disk' = [disk EXCEPT !.mdx = "new"]
    /\ pc' = "mdx_written"
    /\ UNCHANGED <<tag_vars, row, soup, collector_vars, compiler_vars>>

Collect ==
    \/ DestinationExists \/ OpenTxt
    \/ NextRow \/ Forward \/ ForwardRaise \/ SkipLine \/ ReverseEntry
    \/ EndTranslations \/ Flush \/ NoFlush \/ WriteRest

Compile == ReadCorpus \/ CompileEntry \/ WriteMdx

Next == Collect \/ Compile

Spec == Init /\ [][Next]_vars

(***************************************************************************)
(* SpecMdx: generate_mdx over any text file of CORPORA.                    *)
(***************************************************************************)
InitMdx ==
    /\ pc = "generate_mdx"
    /\ f \in CORPORA
    /\ disk \in [txt : {"old"}, mdx : {"absent", "old"}]
    /\ stardict = <<>> /\ tag_rows = <<>> /\ tag_i = 0 /\ snapshots = <<>>
    /\ rows = <<>> /\ buffer_size = 1 /\ row_i = 0 /\ trans_i = 0
    /\ row = BARE_ROW /\ soup = BeautifulSoup
    /\ buffer = <<>>
    /\ content = <<>> /\ entries = <<>> /\ entry_i = 0 /\ dictionary = <<>>

SpecMdx == InitMdx /\ [][Compile]_vars

(***************************************************************************)
(* SpecTag: update_tag_from_tagdb_to_stardictdb, called and then called    *)
(* again on the table it left.                                             *)
(***************************************************************************)
InitTag ==
    /\ pc = "update_tag"
    /\ stardict \in STARDICT_TABLES
    /\ tag_rows \in TAG_STORES
    /\ tag_i = 0 /\ snapshots = <<>>
    /\ row = BARE_ROW /\ soup = BeautifulSoup
    /\ disk = [txt |-> "absent", mdx |-> "absent"]
    /\ rows = <<>> /\ buffer_size = 1 /\ row_i = 0 /\ trans_i = 0
    /\ buffer = <<>> /\ f = <<>>
    /\ content = <<>> /\ entries = <<>> /\ entry_i = 0 /\ dictionary = <<>>

\* the row of table words the loop is about to take
tag_row == tag_rows[tag_i + 1]

\* the rows of stardict that SELECT ... WHERE word = ? finds
results == {k \in 1..Len(stardict) : stardict[k].word = tag_row.word}

\* tag_rows = tag_cursor.fetchall()
FetchTagRows ==
    /\ pc = "update_tag"
    /\ snapshots' = Append(snapshots, stardict)
    /\ tag_i' = 0
    /\ pc' = "for_tag_row"
    /\ UNCHANGED <<disk, row, soup, collector_vars, compiler_vars, stardict, tag_rows>>

\* a row of words without a tag, or whose word stardict does not hold
SkipTagRow ==
    /\ pc = "for_tag_row"
    /\ tag_i < Len(tag_rows)
    /\ tag_row.tag \in {NULL, <<>>} \/ results = {}
    /\ tag_i' = tag_i + 1
    /\ UNCHANGED <<pc, disk, row, soup, collector_vars, compiler_vars, stardict,
                   tag_rows, snapshots>>

\* the tags are merged, sorted and joined, and the rows of the word updated
MergeTag ==
    /\ pc = "for_tag_row"
    /\ tag_i < Len(tag_rows)
    /\ tag_row.tag \notin {NULL, <<>>}
    /\ \E k \in results : \E mixed_tag \in mixed_tags(stardict[k].tag, tag_row.tag) :
           stardict' = update_stardict(stardict, mixed_tag, tag_row.word)
    /\ tag_i' = tag_i + 1
    /\ UNCHANGED <<pc, disk, row, soup, collector_vars, compiler_vars, tag_rows, snapshots>>

\* conn.commit() and the function returns
CommitTags ==
    /\ pc = "for_tag_row"
    /\ tag_i = Len(tag_rows)
    /\ pc' = "committed"
    /\ UNCHANGED <<disk, row, soup, collector_vars, compiler_vars, tag_vars>>

\* the function is called a second time
UpdateAgain ==
    /\ pc = "committed"
    /\ Len(snapshots) = 1
    /\ pc' = "update_tag"
    /\ UNCHANGED <<disk, row, soup, collector_vars, compiler_vars, tag_vars>>

NextTag == FetchTagRows \/ SkipTagRow \/ MergeTag \/ CommitTags \/ UpdateAgain

SpecTag == InitTag /\ [][NextTag]_vars

(***************************************************************************)
(* Claims about update_tag_from_tagdb_to_stardictdb, under SpecTag.        *)
(***************************************************************************)
\* the tags of a tag column
TagsOf(tag) == IF tag = NULL THEN {} ELSE tag_set(tag) \ {<<>>}

\* the words with a non-empty tag in the tag store, and their new tags
Tagged(word) ==
    \E k \in 1..Len(tag_rows) :
        tag_rows[k].word = word /\ tag_rows[k].tag \notin {NULL, <<>>}
NewTagsOf(word) ==
    UNION {TagsOf(tag_rows[k].tag) : k \in {j \in 1..Len(tag_rows) : tag_rows[j].word = word}}

\* a tag string that lists exactly the tags of a set, each once, separated
\* by single spaces without an empty token, the known tags first and in
\* the order of CUSTOM_ORDER
IsNormalForm(tag, tags) ==
    /\ tag # NULL
    /\ LET tokens == split(tag, <<" ">>)
       IN  /\ \A k \in 1..Len(tokens) : tokens[k] # <<>>
           /\ \A i, j \in 1..Len(tokens) : i # j => tokens[i] # tokens[j]
           /\ {tokens[k] : k \in 1..Len(tokens)} = tags
           /\ \A i, j \in 1..Len(tokens) :
                  i < j => sort_key(tokens[i]) <= sort_key(tokens[j])

\* C20 (as claimed): after the update every row whose word has a non-empty
\* tag in the tag store holds the union of its previous and its new tags in
\* normal form, every other row is unchanged, and a second update changes
\* nothing.
C20_TagNormalForm ==
    pc = "committed" =>
        /\ \A k \in 1..Len(stardict) :
               IF Tagged(stardict[k].word)
               THEN IsNormalForm(stardict[k].tag,
                                 TagsOf(snapshots[1][k].tag) \cup NewTagsOf(stardict[k].word))
               ELSE stardict[k].tag = snapshots[1][k].tag
        /\ Len(snapshots) = 2 => stardict = snapshots[2]

(***************************************************************************)
(* Claims about the output files.                                          *)
(***************************************************************************)
\* C14: a stage whose output file exists before the call fails before it
\* writes: no step creates or truncates a file that was there, neither
\* txt_file (convert_stardictdb_to_txt) nor mdx_file (generate_mdx).
C14_RefusesToOverwrite ==
    [][/\ disk.txt = "old" => disk'.txt = "old"
       /\ disk.mdx = "old" => disk'.mdx = "old"]_vars

(***************************************************************************)
(* Claims about generate_html, under SpecHtml.                             *)
(***************************************************************************)
\* a numeric field that is neither absent, empty nor zero
IsSet(v) == v.type = "int" /\ v.int > 0

\* the blocks of the rendered content region
git_of(s) == children_of_class(ctn_of(s), "git")
gdc_of(s) == children_of_class(ctn_of(s), "gdc")
gfm_of(s) == children_of_class(ctn_of(s), "gfm")
frq_of(s) == children_of_class(ctn_of(s), "frq")

\* the number of lines of a field: one more than its separators
NumLines(s) ==
    1 + Cardinality({k \in 1..(Len(s) - 1) : s[k] = "\\" /\ s[k + 1] = "n"})

\* the sub-entries (class dcb) of a gloss block, in order
SubEntries(gdc) == children_of_class(gdc, "dcb")

\* C6: the header block (div class "git") is present iff phonetic, collins
\* or oxford is set; with all three set it holds the bracketed phonetic,
\* the separator, `oxford` Oxford markers and then `collins` Collins markers.
C6_HeaderGating ==
    pc = "returned" =>
        LET git == git_of(soup)
            g   == git[1].contents
        IN  /\ Len(git) <= 1
            /\ (Len(git) = 1) <=>
                   (row.phonetic # <<>> \/ IsSet(row.collins) \/ IsSet(row.oxford))
            /\ (row.phonetic # <<>> /\ IsSet(row.collins) /\ IsSet(row.oxford)) =>
                   /\ Len(g) = 4
                   /\ class_of(g[1]) = <<"ipa">>
                   /\ string_of(g[1]) = <<"[">> \o row.phonetic \o <<"]">>
                   /\ class_of(g[2]) = <<"hnt">>
                   /\ string_of(g[2]) = <<"-">>
                   /\ class_of(g[3]) = <<"oxf">>
                   /\ Len(string_of(g[3])) = row.oxford.int
                   /\ \A k \in 1..Len(string_of(g[3])) : string_of(g[3])[k] = "U+203B"
                   /\ class_of(g[4]) = <<"col">>
                   /\ Len(string_of(g[4])) = row.collins.int
                   /\ \A k \in 1..Len(string_of(g[4])) : string_of(g[4])[k] = "U+2605"

\* C6 witness: a row with the three fields set, two Collins stars, rendered
C6_Witness ==
    /\ pc = "returned"
    /\ row.phonetic # <<>> /\ IsSet(row.oxford)
    /\ IsSet(row.collins) /\ row.collins.int = 2
    /\ Len(git_of(soup)) = 1

\* C7: at most one gloss block; with a translation it has one sub-entry per
\* translation line and renders no definition line; with none and a
\* definition, one sub-entry per definition line; with neither, no block.
C7_GlossExclusive ==
    pc = "returned" =>
        LET gdc == gdc_of(soup)
            sub == SubEntries(gdc[1])
        IN  /\ Len(gdc) <= 1
            /\ row.translation # <<>> =>
                   /\ Len(gdc) = 1
                   /\ Len(sub) = NumLines(row.translation)
                   /\ Len(gdc[1].contents) = 2 * NumLines(row.translation)
                   /\ \A k \in 1..Len(sub) : \A j \in 1..Len(sub[k].contents) :
                          class_of(sub[k].contents[j]) # <<"deq">>
            /\ (row.translation = <<>> /\ row.definition # <<>>) =>
                   /\ Len(gdc) = 1
                   /\ Len(sub) = NumLines(row.definition)
                   /\ Len(gdc[1].contents) = 2 * NumLines(row.definition)
                   /\ \A k \in 1..Len(sub) :
                          /\ Len(sub[k].contents) = 1
                          /\ class_of(sub[k].contents[1]) \in {<<"dcn">>, <<"deq">>}
            /\ (row.translation = <<>> /\ row.definition = <<>>) => Len(gdc) = 0

\* C7 witness: a row with two translation lines and a definition, rendered
C7_Witness ==
    /\ pc = "returned"
    /\ row.definition # <<>>
    /\ NumLines(row.translation) = 2
    /\ Len(SubEntries(gdc_of(soup)[1])) = 2

\* C8 (as claimed): the sub-entry of every translation line that starts with
\* the web marker is the marker label followed by the line without that
\* one leading marker.
C8_WebTextKeepsRest ==
    pc = "returned" =>
        LET lines == split(row.translation, LINE_SEP)
            sub   == SubEntries(gdc_of(soup)[1])
        IN  \A k \in 1..Len(lines) :
                (row.translation # <<>> /\ startswith(lines[k], WEB_MARKER)) =>
                    /\ Len(sub[k].contents) = 2
                    /\ class_of(sub[k].contents[1]) = <<"dnt">>
                    /\ string_of(sub[k].contents[1]) = WEB_MARKER
                    /\ class_of(sub[k].contents[2]) = <<"dne">>
                    /\ string_of(sub[k].contents[2]) =
                           SubSeq(lines[k], Len(WEB_MARKER) + 1, Len(lines[k]))

\* the sub-entry of a line classified with part of speech pos and text text
IsPosEntry(dcb, pos, text) ==
    /\ Len(dcb.contents) = 2
    /\ class_of(dcb.contents[1]) = <<"pos">>
    /\ string_of(dcb.contents[1]) = pos
    /\ class_of(dcb.contents[2]) = <<"dcn">>
    /\ string_of(dcb.contents[2]) = text

\* the lines code + ". " + r of the translation, as <<k, c, r>>: line k,
\* code POS_CODES[c], remainder r (a remainder that begins with the web
\* marker is rendered as a web-sourced sub-entry and shows no label)
CodedLines ==
    LET lines == split(row.translation, LINE_SEP)
        r(k, c) == SubSeq(lines[k], Len(POS_CODES[c]) + 3, Len(lines[k]))
    IN  {<<k, c, r(k, c)>> : <<k, c>> \in
            {kc \in (1..Len(lines)) \X (1..Len(POS_CODES)) :
                /\ startswith(lines[kc[1]], POS_CODES[kc[2]] \o <<".", " ">>)
                /\ ~startswith(r(kc[1], kc[2]), WEB_MARKER)}}

\* C9 (as claimed): every line code + ". " + r, for every remainder r, gets
\* pos = code + "." and text = r.
C9_PosEveryRemainder ==
    pc = "returned" =>
        \A l \in CodedLines :
            row.translation # <<>> =>
                IsPosEntry(SubEntries(gdc_of(soup)[1])[l[1]],
                           POS_CODES[l[2]] \o <<".">>, l[3])

\* C9 (amended): every line code + ". " + r whose remainder r neither begins
\* with a whitespace character nor holds a line feed gets pos = code + "."
\* (the longest code: "vt." and not "v.") and text = r.
C9_PosNotMasked ==
    pc = "returned" =>
        \A l \in CodedLines :
            (/\ row.translation # <<>>
             /\ (l[3] = <<>> \/ l[3][1] \notin WHITESPACE)
             /\ \A j \in 1..Len(l[3]) : l[3][j] # "\n") =>
                IsPosEntry(SubEntries(gdc_of(soup)[1])[l[1]],
                           POS_CODES[l[2]] \o <<".">>, l[3])

\* C9 witness: the line "vt. x" rendered with the label "vt."
C9_Witness ==
    /\ pc = "returned"
    /\ row.translation = <<"v", "t", ".", " ", "x">>
    /\ IsPosEntry(SubEntries(gdc_of(soup)[1])[1], <<"v", "t", ".">>, <<"x">>)

\* the values of the segments of the exchange whose code is c, in the
\* order of the segments
ValuesOf(exchange, c) ==
    LET segs == split(exchange, <<"/">>)
        mine == SelectSeq(segs, LAMBDA g : startswith(g, <<c, ":">>))
    IN  [k \in 1..Len(mine) |-> SubSeq(mine[k], 3, Len(mine[k]))]

\* a sub-block of the inflection block is the label span and the value span
SubBlockText(blocks) == string_of(blocks[1].contents[2])

\* C10: for a parseable non-empty exchange the tense sub-block is present
\* iff a code of p, d, i, 3 occurs, and lists the values of p, then d, then
\* i, then 3, joined by ", "; the degree sub-block likewise for r then t.
C10_TenseAndDegree ==
    (pc = "returned" /\ row.exchange # <<>>) =>
        LET gfm   == gfm_of(soup)
            fmb   == children_of_class(gfm[1], "fmb")
            qmb   == children_of_class(gfm[1], "qmb")
            tense == ValuesOf(row.exchange, "p") \o ValuesOf(row.exchange, "d")
                     \o ValuesOf(row.exchange, "i") \o ValuesOf(row.exchange, "3")
            degree == ValuesOf(row.exchange, "r") \o ValuesOf(row.exchange, "t")
        IN  /\ Len(gfm) = 1
            /\ Len(fmb) = (IF tense # <<>> THEN 1 ELSE 0)
            /\ tense # <<>> => SubBlockText(fmb) = join(<<",", " ">>, tense)
            /\ Len(qmb) = (IF degree # <<>> THEN 1 ELSE 0)
            /\ degree # <<>> => SubBlockText(qmb) = join(<<",", " ">>, degree)

\* C10 witness: "d:c/p:a" rendered as the tense line "a, c"
C10_Witness ==
    /\ pc = "returned"
    /\ row.exchange = <<"d", ":", "c", "/", "p", ":", "a">>
    /\ SubBlockText(children_of_class(gfm_of(soup)[1], "fmb")) = <<"a", ",", " ", "c">>

\* the labels of the characters of one value of code "1"
LabelsOf(value) == Concat([c \in 1..Len(value) |-> what_of(value[c])])

\* the text of a base-form line for a word, a base and a list of labels
BaseFormText(word, base, labels) ==
    IF labels # <<>>
    THEN word \o <<" ", "U+662F", " ">> \o base \o <<" ", "U+7684">>
              \o join(<<"U+548C">>, labels)
    ELSE word \o <<" ", "U+7684", "U+539F", "U+578B", "U+662F", " ">> \o base

\* the base-form sub-block is present iff the exchange has code 0 and code
\* 1, and its text is built from the first value of code 0 and the labels
BaseForm(labels_of_values(_)) ==
    (pc = "returned" /\ row.exchange # <<>>) =>
        LET orb   == children_of_class(gfm_of(soup)[1], "orb")
            bases == ValuesOf(row.exchange, "0")
            ones  == ValuesOf(row.exchange, "1")
        IN  /\ Len(orb) = (IF bases # <<>> /\ ones # <<>> THEN 1 ELSE 0)
            /\ (bases # <<>> /\ ones # <<>>) =>
                   SubBlockText(orb) = BaseFormText(row.word, bases[1], labels_of_values(ones))

\* C11 as stated: the base-form sub-block is present iff the exchange has
\* code 0 and code 1, and its labels are decoded from the FIRST value of
\* code 1 only.
C11_BaseFormFirstValue ==
    LET first(ones) == LabelsOf(ones[1]) IN BaseForm(first)

\* C11 amended: the labels are decoded from EVERY value of code 1, in the
\* order of the segments; unknown characters give no label.
C11_BaseFormAllValues ==
    LET all(ones) == Concat([k \in 1..Len(ones) |-> LabelsOf(ones[k])]) IN BaseForm(all)

\* C11 witness: "0:o/1:pxd/1:i" on "cat" rendered with three labels
C11_Witness ==
    /\ pc = "returned"
    /\ row.word = <<"c", "a", "t">>
    /\ row.exchange = <<"0", ":", "o", "/", "1", ":", "p", "x", "d", "/", "1", ":", "i">>
    /\ SubBlockText(children_of_class(gfm_of(soup)[1], "orb"))
         = <<"c", "a", "t", " ", "U+662F", " ", "o", " ", "U+7684",
             "U+8FC7", "U+53BB", "U+5F0F", "U+548C",
             "U+8FC7", "U+53BB", "U+5206", "U+8BCD", "U+548C",
             "U+73B0", "U+5728", "U+5206", "U+8BCD">>

\* the catalog of tag codes and their labels, in the order of the labels
TagCatalog ==
    << <<<<"z", "k">>, "U+4E2D">>, <<<<"g", "k">>, "U+9AD8">>, <<<<"k", "y">>, "U+7814">>,
       <<<<"c", "e", "t", "4">>, "U+56DB">>, <<<<"c", "e", "t", "6">>, "U+516D">>,
       <<<<"t", "o", "e", "f", "l">>, "U+6258">>, <<<<"i", "e", "l", "t", "s">>, "U+96C5">>,
       <<<<"g", "r", "e">>, "U+5B9D">> >>

\* the labels of the codes of a tag string, in catalog order
TagLabels(tag) ==
    LET codes == {split(tag, <<" ">>)[k] : k \in 1..Len(split(tag, <<" ">>))}
        hits  == SelectSeq(TagCatalog, LAMBDA e : e[1] \in codes)
    IN  [k \in 1..Len(hits) |-> hits[k][2]]

\* a frequency rank as the text shows it
Shown(v) == IF v.type = "int" THEN digits(v.int) ELSE format(v)

\* C12: the frequency block (div class "frq") is present iff tag is
\* non-empty or frq or bnc is non-zero; its text is the labels of the tag
\* codes present, in catalog order whatever their order in tag and without
\* the unknown codes, followed by " <frq>/<bnc>" iff frq or bnc is non-zero.
C12_FrequencyBlock ==
    pc = "returned" =>
        LET frq     == frq_of(soup)
            ranked  == IsSet(row.frq) \/ IsSet(row.bnc)
            present == row.tag # <<>> \/ ranked
        IN  /\ Len(frq) = (IF present THEN 1 ELSE 0)
            /\ present =>
                 string_of(frq[1]) =
                     TagLabels(row.tag)
                     \o (IF ranked
                         THEN <<" ">> \o Shown(row.frq) \o <<"/">> \o Shown(row.bnc)
                         ELSE <<>>)

\* C12 witness: tag "ky zk" with frq 45 and bnc 120 shown as the labels of
\* zk and then ky, followed by " 45/120"
C12_Witness ==
    /\ pc = "returned"
    /\ row.tag = <<"k", "y", " ", "z", "k">>
    /\ row.frq = PyInt(45) /\ row.bnc = PyInt(120)
    /\ string_of(frq_of(soup)[1])
         = <<"U+4E2D", "U+7814", " ", "4", "5", "/", "1", "2", "0">>

\* an exchange with a "/"-delimited segment that holds no ":"
HasBadSegment(exchange) ==
    \E k \in 1..Len(split(exchange, <<"/">>)) :
        \A j \in 1..Len(split(exchange, <<"/">>)[k]) : split(exchange, <<"/">>)[k][j] # ":"

\* C13: for a row whose non-empty exchange has a segment without ":" (an
\* empty segment included) generate_html never returns a document: the call
\* ends by raising and no soup is produced.
C13_BadExchangeRaises ==
    (row.exchange # <<>> /\ HasBadSegment(row.exchange)) =>
        /\ pc \in {"generate_html", "raised"}
        /\ soup = BeautifulSoup

\* C13 witness: "p:a/q" has raised, although its first segment is well
\* formed; so has "p:a/" with its empty last segment
C13_Witness ==
    /\ pc = "raised"
    /\ row.exchange \in {<<"p", ":", "a", "/", "q">>, <<"p", ":", "a", "/">>}

(***************************************************************************)
(* Claims about convert_stardictdb_to_txt, under Spec.                     *)
(***************************************************************************)
\* a line with at least one character in [U+4E00, U+9FFF]
HasChinese(line) == \E k \in 1..Len(line) : ord(line[k]) \in 19968..40959

\* the translation lines of a row that qualify for a reverse document
QualifyingLines(r) ==
    IF r.translation = <<>> THEN <<>>
    ELSE SelectSeq(split(r.translation, LINE_SEP), HasChinese)

\* the gloss text of a line: the line without its part of speech, the
\* full stop and the whitespace after it
Gloss(line) ==
    LET codes == {c \in 1..Len(POS_CODES) : startswith(line, POS_CODES[c] \o <<".">>)}
        c     == CHOOSE c \in codes : TRUE
    IN  IF codes = {} THEN line
        ELSE lstrip(SubSeq(line, Len(POS_CODES[c]) + 2, Len(line)), WHITESPACE)

\* the reverse document of a line of a row, rendered by generate_html
ReverseSoup(r, line) ==
    generate_html(Gloss(line), <<>>, r.definition, r.word, PyEmptyStr, PyEmptyStr,
                  <<>>, PyEmptyStr, PyEmptyStr, <<>>)

\* the documents of a row: forward, then one per qualifying line
RowDocs(r) ==
    <<decode(html_of(r)) \o <<"\n">>>>
    \o [k \in 1..Len(QualifyingLines(r)) |->
           decode(ReverseSoup(r, QualifyingLines(r)[k])) \o <<"\n">>]

\* the corpus of a sequence of rows
RECURSIVE CorpusOf(_)
CorpusOf(rs) ==
    IF rs = <<>> THEN <<>> ELSE Concat(RowDocs(Head(rs))) \o CorpusOf(Tail(rs))

\* the rows before the first row whose rendering raises
Renderable(rs) ==
    LET bad == {k \in 1..Len(rs) : exchange_raises(rs[k].exchange)}
    IN  IF bad = {} THEN rs ELSE SubSeq(rs, 1, Min(bad) - 1)

CollectorReturned == pc \in {"generate_mdx", "for_entry", "mdx_written"}
CollectorRunning == pc \in {"for_row", "forward", "for_trans", "flush"}

\* the number of documents of a text
NumDocs(text) == Cardinality({k \in 1..Len(text) : text[k] = "</html>"})

\* C2: the corpus written lists, for each row in scan order, the forward
\* document and then the reverse documents in line order: nothing dropped,
\* duplicated or reordered; while it is written it is a prefix of that.
C2_OrderPreserved ==
    /\ CollectorReturned => f = CorpusOf(rows)
    /\ (CollectorRunning \/ pc = "raised") =>
           startswith(CorpusOf(Renderable(rows)), f \o Concat(buffer))

\* C2 witness: two rows, four documents or more, written
C2_Witness ==
    /\ pc = "generate_mdx"
    /\ Len(rows) = 2
    /\ buffer_size = 2
    /\ NumDocs(f) >= 4
    /\ f = CorpusOf(rows)

\* the documents produced so far by the row of the loop
ProducedByRow ==
    CASE pc = "forward" -> 0
      [] pc = "for_trans" ->
             1 + Cardinality({k \in 1..trans_i : HasChinese(translations[k])})
      [] OTHER -> 1 + Len(QualifyingLines(row))

\* C4: a reverse document is emitted for a translation line iff the line
\* holds a character in [U+4E00, U+9FFF]: after each line, the documents
\* produced are one per row done, one per qualifying line done.
C4_ReverseIffChinese ==
    CollectorRunning =>
        NumDocs(f \o Concat(buffer)) =
            (IF row_i = 0 THEN 0 ELSE NumDocs(CorpusOf(SubSeq(rows, 1, row_i - 1))) + ProducedByRow)

\* C4 witness: a row of two lines, one of them qualifying by U+9FFF alone
C4_Witness ==
    /\ pc = "flush"
    /\ Len(translations) = 2
    /\ translations[2] = <<"x", "U+9FFF">>
    /\ ~HasChinese(translations[1])
    /\ Len(buffer) = 2

Unbuffered ==
    IF row_i = 0 THEN <<>>
    ELSE CorpusOf(SubSeq(rows, 1, row_i - 1))
         \o (IF ProducedByRow = 0 THEN <<>>
             ELSE Concat(SubSeq(RowDocs(row), 1, ProducedByRow)))

\* C17: batching is transparent: at every point the file followed by the
\* buffer is what unbuffered writing gives (every document appended is in
\* the file or still in the buffer, once), and on return the file is the
\* whole unbuffered corpus for every buffer_size, the documents left in
\* the buffer being its end: none is unwritten.
C17_BatchingTransparent ==
    /\ CollectorRunning => f \o Concat(buffer) = Unbuffered
    /\ pc = "generate_mdx" =>
           /\ f = Unbuffered
           /\ NumDocs(f) >= Len(buffer)
           /\ SubSeq(f, Len(f) - Len(Concat(buffer)) + 1, Len(f)) = Concat(buffer)

\* C17 witness: three documents with buffer_size 2: one batch flushed in
\* the loop and the rest written after it
C17_Witness ==
    /\ pc = "generate_mdx"
    /\ buffer_size = 2
    /\ NumDocs(f) = 3
    /\ Len(buffer) = 1
    /\ f = CorpusOf(rows)

\* C5: the reverse document of a qualifying line is generate_html of the
\* row (gloss text, "", definition of the row, word of the row, "", ...),
\* and its title is the gloss text.
C5_ReverseIsPermutedRow ==
    (pc = "for_trans" /\ trans_i >= 1 /\ HasChinese(translations[trans_i])) =>
        /\ soup = ReverseSoup(row, translations[trans_i])
        /\ buffer[Len(buffer)] = decode(soup) \o <<"\n">>
        /\ title_of(soup) = Gloss(translations[trans_i])

\* C5 witness: the reverse document of "n. U+4E00" of a row with a definition
C5_Witness ==
    /\ pc = "for_trans" /\ trans_i >= 1
    /\ translations[trans_i] = <<"n", ".", " ", "U+4E00">>
    /\ row.definition = <<"d">>
    /\ title_of(soup) = <<"U+4E00">>

\* C19 (as claimed): the reverse document of a qualifying line has no
\* header, inflection or frequency block, and its gloss block is one plain
\* sub-entry without a label whose text is the word of the row in full;
\* the definition of the row is not rendered in it.
C19_ReverseShape ==
    (pc = "for_trans" /\ trans_i >= 1 /\ HasChinese(translations[trans_i])) =>
        /\ git_of(soup) = <<>>
        /\ gfm_of(soup) = <<>>
        /\ frq_of(soup) = <<>>
        /\ Len(gdc_of(soup)) = 1
        /\ Len(SubEntries(gdc_of(soup)[1])) = 1
        /\ Len(gdc_of(soup)[1].contents) = 2
        /\ Len(SubEntries(gdc_of(soup)[1])[1].contents) = 1
        /\ class_of(SubEntries(gdc_of(soup)[1])[1].contents[1]) = <<"dcn">>
        /\ string_of(SubEntries(gdc_of(soup)[1])[1].contents[1]) = row.word

(***************************************************************************)
(* Claims about the two stages together, under Spec.                       *)
(***************************************************************************)
\* the headwords passed to the renderer for a row: its word, then the
\* gloss text of each qualifying line
RowHeads(r) ==
    <<r.word>> \o [k \in 1..Len(QualifyingLines(r)) |-> Gloss(QualifyingLines(r)[k])]

RECURSIVE HeadsOf(_)
HeadsOf(rs) == IF rs = <<>> THEN <<>> ELSE RowHeads(Head(rs)) \o HeadsOf(Tail(rs))

\* the markup of the documents of the rows, in the order of HeadsOf
RECURSIVE MarkupsOf(_)
MarkupsOf(rs) ==
    IF rs = <<>> THEN <<>>
    ELSE [k \in 1..Len(RowDocs(Head(rs))) |->
             SubSeq(RowDocs(Head(rs))[k], 1, Len(RowDocs(Head(rs))[k]) - 1)]
         \o MarkupsOf(Tail(rs))

\* C18 (as claimed): the keys of the dictionary compiled from the corpus of
\* the rows are exactly the headwords passed to the renderer, unaltered,
\* and each value is the markup of the last document of its headword.
C18_RoundTrip ==
    pc = "mdx_written" =>
        LET heads == HeadsOf(rows)
            docs  == MarkupsOf(rows)
        IN  /\ {dictionary[k].key : k \in 1..Len(dictionary)}
                   = {heads[j] : j \in 1..Len(heads)}
            /\ \A j \in 1..Len(heads) :
                   (\A l \in (j + 1)..Len(heads) : heads[l] # heads[j]) =>
                       dict_get(dictionary, heads[j]) = docs[j]

(***************************************************************************)
(* Claims about generate_mdx, under SpecMdx.                               *)
(***************************************************************************)
\* the documents of the text file: its stripped fragments that are not
\* blank and hold a title, in order
TitledDocs ==
    LET frs == split(f, HTML_CLOSE)
    IN  SelectSeq([k \in 1..Len(frs) |-> strip(frs[k])],
                  LAMBDA e : e # <<>> /\ contains(e, TITLE_OPEN))

\* C1: the dictionary maps every key to the last document of the corpus
\* with that key, and holds one entry per distinct key.
C1_LastWriteWins ==
    pc = "mdx_written" =>
        LET docs == TitledDocs
        IN  /\ \A j \in 1..Len(docs) :
                   (\A l \in (j + 1)..Len(docs) : title_key(docs[l]) # title_key(docs[j])) =>
                       /\ dict_has(dictionary, title_key(docs[j]))
                       /\ dict_get(dictionary, title_key(docs[j])) = docs[j] \o HTML_CLOSE
            /\ \A a, b \in 1..Len(dictionary) :
                   a # b => dictionary[a].key # dictionary[b].key
            /\ {dictionary[k].key : k \in 1..Len(dictionary)}
                   = {title_key(docs[j]) : j \in 1..Len(docs)}

\* C1 witness: two different documents with one key; the later is kept
C1_Witness ==
    /\ pc = "mdx_written"
    /\ \E i, j \in 1..Len(TitledDocs) :
           /\ i < j
           /\ title_key(TitledDocs[i]) = title_key(TitledDocs[j])
           /\ TitledDocs[i] # TitledDocs[j]
           /\ \A l \in (j + 1)..Len(TitledDocs) :
                  title_key(TitledDocs[l]) # title_key(TitledDocs[j])
           /\ dict_get(dictionary, title_key(TitledDocs[j])) = TitledDocs[j] \o HTML_CLOSE

\* C3 (as claimed): generate_mdx does not complete on a corpus with a
\* fragment that is not blank and has no title.
C3_MalformedFailsFast ==
    pc = "mdx_written" =>
        \A k \in 1..Len(entries) :
            strip(entries[k]) = <<>> \/ contains(strip(entries[k]), TITLE_OPEN)

====
